---- MODULE Spec2Model ----
(***************************************************************************)
(* Knight's shortest path (main.py): the move generator, the builder of    *)
(* the knight's graph and the Dijkstra search, as a state machine.         *)
(*                                                                         *)
(* A dict is a function (its key set is DOMAIN); a defaultdict(dict) is a  *)
(* function whose missing keys are inserted, bound to the empty dict, when *)
(* they are subscripted.  The insertion order of a dict is not modelled:   *)
(* the code iterates over the graph and over a neighbour mapping only to   *)
(* write entries that are keyed by the iterated key.                       *)
(***************************************************************************)
EXTENDS Integers, Sequences, FiniteSets, TLC

VARIABLES
    board_size,     \* build_knights_graph: its argument
    row, col,       \* build_knights_graph: the loop variables
    move_idx,       \* generate_permitted_moves_from: index of the next offset
    yielded,        \* the moves the generator has yielded for (row, col)
    graph,          \* the graph: label -> (label -> weight)
    src, dst,       \* dijkstra: its arguments
    node_data,      \* dijkstra: label -> [cost, pred]
    visited,        \* dijkstra: the list of visited nodes
    min_heap,       \* dijkstra: the priority queue of (cost, node)
    shortest_path,  \* dijkstra: the returned string
    pc              \* where the program is

vars == <<board_size, row, col, move_idx, yielded, graph, src, dst,
          node_data, visited, min_heap, shortest_path, pc>>

build_vars == <<board_size, row, col, move_idx, yielded>>
query_vars == <<src, dst, node_data, visited, min_heap, shortest_path>>

-----------------------------------------------------------------------------
(* Bounds and program constants *)

\* The greatest edge weight of the generated graphs.
MaxWeight == 2

\* The board of main(), and the greatest one get_mapping has labels for.
BOARD == 8

\* sys.maxsize, the cost of a node not reached yet.  It is 2^63 - 1 on the
\* platforms the program runs on; the model takes the greatest integer TLC
\* represents.  Either exceeds every path cost of the graphs checked.
inf == 2147483647

EmptyDict == [k \in {} |-> 0]

-----------------------------------------------------------------------------
(* get_mapping *)

FILES == <<"A", "B", "C", "D", "E", "F", "G", "H">>
RANKS == <<"1", "2", "3", "4", "5", "6", "7", "8">>
DIGITS == <<0, 1, 2, 3, 4, 5, 6, 7>>

\* product(a, b) as a list: the last index runs fastest.
ProductIdx(k, n) == <<((k - 1) \div n) + 1, ((k - 1) % n) + 1>>

\* letters: product('ABCDEFGH', '12345678') with each pair joined.
letters ==
    [k \in 1..(Len(FILES) * Len(RANKS)) |->
        LET ij == ProductIdx(k, Len(RANKS)) IN FILES[ij[1]] \o RANKS[ij[2]]]

\* n: product('01234567', repeat=2) with each pair turned to integers.
n ==
    [k \in 1..(Len(DIGITS) * Len(DIGITS)) |->
        LET ij == ProductIdx(k, Len(DIGITS)) IN <<DIGITS[ij[1]], DIGITS[ij[2]]>>]

\* The returned mapping: {num: letter for letter, num in zip(letters, n)}.
get_mapping ==
    [num \in {n[k] : k \in 1..Len(n)} |->
        letters[CHOOSE k \in 1..Len(n) : n[k] = num]]

-----------------------------------------------------------------------------
(* generate_permitted_moves_from *)

\* PERMITTED_MOVES with a fault: the last offset is mistyped.
PERMITTED_MOVES_TYPO ==
    << <<-1, -2>>, <<1, -2>>,
       <<-2, -1>>, <<2, -1>>,
       <<-2, 1>>,  <<2, 1>>,
       <<-1, 2>>,  <<2, 2>> >>

PERMITTED_MOVES ==
    << <<-1, -2>>, <<1, -2>>,
       <<-2, -1>>, <<2, -1>>,
       <<-2, 1>>,  <<2, 1>>,
       <<-1, 2>>,  <<1, 2>> >>

\* The target of the offset at index i from (r, c).
MoveFrom(r, c, i) == <<r + PERMITTED_MOVES[i][1], c + PERMITTED_MOVES[i][2]>>

\* OnBoard with a fault: the upper comparison lets board_size through.
OnBoardInclusive(m, size) ==
    0 <= m[1] /\ m[1] <= size /\ 0 <= m[2] /\ m[2] <= size

\* 0 <= move_row < board_size and 0 <= move_col < board_size
OnBoard(m, size) ==
    0 <= m[1] /\ m[1] < size /\ 0 <= m[2] /\ m[2] < size

-----------------------------------------------------------------------------
(* add_edge *)

\* graph[a]: the dict at a, which a defaultdict creates when a is missing.
GetItem(g, a) == IF a \in DOMAIN g THEN g[a] ELSE EmptyDict

\* Touched with a fault: the subscript binds a to a new dict each time.
TouchedAfresh(g, a) == (a :> EmptyDict) @@ g

\* The graph after graph[a] was subscripted.
Touched(g, a) == IF a \in DOMAIN g THEN g ELSE (a :> EmptyDict) @@ g

\* graph[a].update({b: 1})
UpdateEdge(g, a, b) == (a :> ((b :> 1) @@ GetItem(g, a))) @@ g

add_edge(g, vertex_a, vertex_b) ==
    UpdateEdge(UpdateEdge(g, vertex_a, vertex_b), vertex_b, vertex_a)

-----------------------------------------------------------------------------
(* build_knights_graph *)

\* The squares of a board: range(board_size) x range(board_size).
Cells(size) == (0..(size - 1)) \X (0..(size - 1))

\* One step of the generator at (row, col): the offset at move_idx is tried,
\* and a target on the board is yielded to the loop body, which adds the edge.
GenNext ==
    /\ pc = "build"
    /\ move_idx <= Len(PERMITTED_MOVES)
    /\ LET move == MoveFrom(row, col, move_idx) IN
         IF OnBoard(move, board_size)
         THEN /\ yielded' = Append(yielded, move)
              /\ graph' = add_edge(graph, get_mapping[<<row, col>>],
                                   get_mapping[move])
         ELSE UNCHANGED <<yielded, graph>>
    /\ move_idx' = move_idx + 1
    /\ UNCHANGED <<board_size, row, col, pc>>
    /\ UNCHANGED query_vars

\* The generator is exhausted: the loops go to the next square, and the
\* graph is returned after the last one.
NextCell ==
    /\ pc = "build"
    /\ move_idx > Len(PERMITTED_MOVES)
    /\ move_idx' = 1
    /\ yielded' = <<>>
    /\ IF col + 1 < board_size
       THEN /\ col' = col + 1
            /\ UNCHANGED <<row, pc>>
       ELSE IF row + 1 < board_size
       THEN /\ row' = row + 1
            /\ col' = 0
            /\ UNCHANGED pc
       ELSE /\ pc' = "idle"
            /\ UNCHANGED <<row, col>>
    /\ UNCHANGED <<board_size, graph>>
    /\ UNCHANGED query_vars

-----------------------------------------------------------------------------
(* The order of the heap entries *)

\* The nodes of the graphs checked: square labels, and single letters.
Labels == {letters[k] : k \in 1..Len(letters)} \cup {FILES[i] : i \in 1..Len(FILES)}

\* Python's order of str on Labels (by code point, a prefix first).
StrRank ==
    [s \in Labels |->
        IF \E i \in 1..Len(FILES) : FILES[i] = s
        THEN ((CHOOSE i \in 1..Len(FILES) : FILES[i] = s) - 1) * (Len(RANKS) + 1)
        ELSE LET k == CHOOSE k \in 1..Len(letters) : letters[k] = s
                 ij == ProductIdx(k, Len(RANKS))
             IN  (ij[1] - 1) * (Len(RANKS) + 1) + ij[2]]

\* TupleLess with a fault: the cost alone orders the entries.
TupleLessNoTie(a, b) == a[1] < b[1]

\* (cost, node) < (cost, node) of Python's tuples.
TupleLess(a, b) ==
    \/ a[1] < b[1]
    \/ a[1] = b[1] /\ StrRank[a[2]] < StrRank[b[2]]

\* heappush: the heap is kept as the sorted list of its entries, which
\* heappop takes from the front.
heappush(heap, e) ==
    LET before == SelectSeq(heap, LAMBDA x : ~TupleLess(e, x))
        after == SelectSeq(heap, LAMBDA x : TupleLess(e, x))
    IN  before \o <<e>> \o after

RECURSIVE PushAll(_, _, _)
PushAll(heap, nd, js) ==
    IF js = {} THEN heap
    ELSE LET j == CHOOSE x \in js : TRUE
         IN  PushAll(heappush(heap, <<nd[j].cost, j>>), nd, js \ {j})

-----------------------------------------------------------------------------
(* dijkstra *)

InList(x, list) == \E i \in 1..Len(list) : list[i] = x

\* ' '.join(path)
RECURSIVE Join(_)
Join(path) ==
    IF path = <<>> THEN ""
    ELSE IF Len(path) = 1 THEN path[1]
    ELSE path[1] \o " " \o Join(Tail(path))

\* InitNodeData with a fault: the chains start at the source.
InitNodeDataFromSrc(g, s) ==
    [k \in DOMAIN g |-> IF k = s THEN [cost |-> 0, pred |-> <<>>]
                                 ELSE [cost |-> inf, pred |-> <<s>>]]

\* node_data as first built, and the source's cost set to zero.
InitNodeData(g, s) ==
    [k \in DOMAIN g |-> IF k = s THEN [cost |-> 0, pred |-> <<>>]
                                 ELSE [cost |-> inf, pred |-> <<>>]]

\* Relaxed with a fault: the cost of temp is not added to the edge's weight.
RelaxedEdgeOnly(nd, temp, neighbours, j) ==
    LET cost == neighbours[j] IN
    IF cost < nd[j].cost
    THEN [cost |-> cost, pred |-> nd[temp].pred \o <<temp>>]
    ELSE nd[j]

\* Relaxed with a fault: the predecessor chain is not extended by temp.
RelaxedNoTemp(nd, temp, neighbours, j) ==
    LET cost == nd[temp].cost + neighbours[j] IN
    IF cost < nd[j].cost
    THEN [cost |-> cost, pred |-> nd[temp].pred]
    ELSE nd[j]

\* The body of the inner loop for neighbour j: node_data[j] after it.
Relaxed(nd, temp, neighbours, j) ==
    LET cost == nd[temp].cost + neighbours[j] IN
    IF cost < nd[j].cost
    THEN [cost |-> cost, pred |-> nd[temp].pred \o <<temp>>]
    ELSE nd[j]

\* The destination of a call whose dst differs from src, until line 79 reads
\* it: the loop reads dst in src == dst only, so which of the other nodes it
\* is is drawn where the path of the destination is read.
UNREAD == "?"

\* The call dijkstra(graph, s, d), to the start of the loop; d is s or UNREAD.
Call(s, d) ==
    /\ pc = "idle"
    /\ src' = s
    /\ dst' = d
    /\ IF s \in DOMAIN graph
       THEN /\ node_data' = InitNodeData(graph, s)
            /\ visited' = <<>>
            /\ min_heap' = <<<<0, s>>>>
            /\ pc' = "loop"
       ELSE \* node_data[src] raises KeyError
            /\ node_data' = InitNodeData(graph, s)
            /\ pc' = "KeyError"
            /\ UNCHANGED <<visited, min_heap>>
    /\ UNCHANGED <<graph, shortest_path>>
    /\ UNCHANGED build_vars

\* SelfPath with a fault: the loop never breaks early.
SelfPathIgnored(s, d) == FALSE

\* if src == dst: break
SelfPath(s, d) == s = d

\* One turn of the while loop.
Iterate ==
    /\ pc = "loop"
    /\ min_heap # <<>>
    /\ LET temp == Head(min_heap)[2]
           popped == Tail(min_heap)
       IN
         IF SelfPath(src, dst)
         THEN /\ min_heap' = popped
              /\ pc' = "join"
              /\ UNCHANGED <<graph, node_data, visited>>
         ELSE IF InList(temp, visited)
         THEN /\ min_heap' = popped
              /\ UNCHANGED <<graph, node_data, visited, pc>>
         ELSE LET neighbours == GetItem(graph, temp)
                  todo == {j \in DOMAIN neighbours : ~InList(j, visited) /\ j # temp}
              IN
                /\ visited' = Append(visited, temp)
                /\ graph' = Touched(graph, temp)
                /\ IF todo \subseteq DOMAIN node_data
                   THEN /\ node_data' =
                             [k \in DOMAIN node_data |->
                                 IF k \in todo
                                 THEN Relaxed(node_data, temp, neighbours, k)
                                 ELSE node_data[k]]
                        /\ min_heap' = PushAll(popped, node_data', todo)
                        /\ UNCHANGED pc
                   ELSE \* node_data[j] raises KeyError
                        /\ min_heap' = popped
                        /\ pc' = "KeyError"
                        /\ UNCHANGED node_data
    /\ UNCHANGED <<src, dst, shortest_path>>
    /\ UNCHANGED build_vars

\* The heap is empty: the loop ends.
Exhausted ==
    /\ pc = "loop"
    /\ min_heap = <<>>
    /\ pc' = "join"
    /\ UNCHANGED <<graph, src, dst, node_data, visited, min_heap, shortest_path>>
    /\ UNCHANGED build_vars

\* The path of the destination d is joined and returned.
Return(d) ==
    /\ dst' = d
    /\ IF d \in DOMAIN node_data
       THEN /\ shortest_path' = Join(node_data[d].pred \o <<d>>)
            /\ pc' = "done"
       ELSE \* node_data[dst] raises KeyError
            /\ pc' = "KeyError"
            /\ UNCHANGED shortest_path
    /\ UNCHANGED <<graph, src, node_data, visited, min_heap>>
    /\ UNCHANGED build_vars

\* main: the result is kept for the output and the next line is read; the
\* locals of the call are gone.
NextLine ==
    /\ pc = "done"
    /\ pc' = "idle"
    /\ src' = ""
    /\ dst' = ""
    /\ node_data' = EmptyDict
    /\ visited' = <<>>
    /\ min_heap' = <<>>
    /\ shortest_path' = ""
    /\ UNCHANGED graph
    /\ UNCHANGED build_vars

-----------------------------------------------------------------------------------------------------------------------------------------------------
(* The knight's program: a board is built, then queries are answered *)

\* The labels of the squares of a board.
Squares(size) == {get_mapping[cell] : cell \in Cells(size)}

Query ==
    /\ pc = "idle"
    /\ \E s \in Squares(board_size) : \E d \in {s, UNREAD} : Call(s, d)

Finish ==
    /\ pc = "join"
    /\ \E d \in Squares(board_size) :
          /\ IF dst = UNREAD THEN d # src ELSE d = dst
          /\ Return(d)

Init ==
    /\ board_size \in 1..BOARD
    /\ row = 0
    /\ col = 0
    /\ move_idx = 1
    /\ yielded = <<>>
    /\ graph = EmptyDict
    /\ src = ""
    /\ dst = ""
    /\ node_data = EmptyDict
    /\ visited = <<>>
    /\ min_heap = <<>>
    /\ shortest_path = ""
    /\ pc = "build"

Next ==
    \/ GenNext
    \/ NextCell
    \/ Query
    \/ Iterate
    \/ Exhausted
    \/ Finish
    \/ NextLine

Spec == Init /\ [][Next]_vars

-----------------------------------------------------------------------------
(* dijkstra on the graphs of test_dijkstra's kind: any dict of dicts with   *)
(* nonnegative weights whose neighbours are keys                            *)

\* The graph of test_dijkstra.
Fixture ==
    [a \in {"A", "B", "C", "D", "E", "F"} |->
        CASE a = "A" -> ("B" :> 2) @@ ("C" :> 4)
          [] a = "B" -> ("A" :> 2) @@ ("C" :> 3) @@ ("D" :> 8)
          [] a = "C" -> ("A" :> 4) @@ ("B" :> 3) @@ ("E" :> 5) @@ ("D" :> 2)
          [] a = "D" -> ("B" :> 8) @@ ("C" :> 2) @@ ("E" :> 11) @@ ("F" :> 22)
          [] a = "E" -> ("C" :> 5) @@ ("D" :> 11) @@ ("F" :> 1)
          [] a = "F" -> ("D" :> 22) @@ ("E" :> 1)]

Nodes3 == {"A", "B", "C"}
Nodes4 == {"A", "B", "C", "D"}

\* The directed graphs on Nodes3: any set of arcs, any weights up to MaxWeight.
DirectedGraphs ==
    LET arcs == {p \in Nodes3 \X Nodes3 : p[1] # p[2]} IN
    UNION {{[a \in Nodes3 |-> [b \in {x \in Nodes3 : <<a, x>> \in E} |-> w[<<a, b>>]]] :
                w \in [E -> 0..MaxWeight]} : E \in SUBSET arcs}

\* The undirected graphs on Nodes4: any set of edges, any weights up to MaxWeight.
UndirectedGraphs ==
    LET edges == {e \in SUBSET Nodes4 : Cardinality(e) = 2} IN
    UNION {{[a \in Nodes4 |-> [b \in {x \in Nodes4 : {a, x} \in E} |-> w[{a, b}]]] :
                w \in [E -> 0..MaxWeight]} : E \in SUBSET edges}

QueryNode ==
    /\ pc = "idle"
    /\ \E s \in DOMAIN graph : \E d \in {s, UNREAD} : Call(s, d)

FinishNode ==
    /\ pc = "join"
    /\ \E d \in DOMAIN graph :
          /\ IF dst = UNREAD THEN d # src ELSE d = dst
          /\ Return(d)

InitGraphs ==
    /\ board_size = 0
    /\ row = 0
    /\ col = 0
    /\ move_idx = 1
    /\ yielded = <<>>
    /\ graph \in DirectedGraphs \cup UndirectedGraphs \cup {Fixture}
    /\ src = ""
    /\ dst = ""
    /\ node_data = EmptyDict
    /\ visited = <<>>
    /\ min_heap = <<>>
    /\ shortest_path = ""
    /\ pc = "idle"

NextGraphs ==
    \/ QueryNode
    \/ Iterate
    \/ Exhausted
    \/ FinishNode
    \/ NextLine

SpecGraphs == InitGraphs /\ [][NextGraphs]_vars

-----------------------------------------------------------------------------
(* What the claims speak of *)

\* The eight knight offsets: (+-1, +-2) and (+-2, +-1).
KnightOffsets ==
    {d \in {-2, -1, 1, 2} \X {-2, -1, 1, 2} : d[1] * d[1] # d[2] * d[2]}

\* Cell b is one knight move from cell a.
KnightStep(a, b) == <<b[1] - a[1], b[2] - a[2]>> \in KnightOffsets

\* The cells of the size x size board.
Board(size) == (0..(size - 1)) \X (0..(size - 1))

\* The cell a square label stands for.
CoordOf(label) == CHOOSE cell \in Board(BOARD) : get_mapping[cell] = label

\* The cells of a board that have a legal knight move.
MobileCells(size) ==
    {cell \in Board(size) : \E t \in Board(size) : KnightStep(cell, t)}

\* The list of labels is a walk of legal knight moves on the board.
KnightWalk(path, size) ==
    /\ \A i \in 1..Len(path) : path[i] \in {get_mapping[cell] : cell \in Board(size)}
    /\ \A i \in 1..(Len(path) - 1) : KnightStep(CoordOf(path[i]), CoordOf(path[i + 1]))

\* The path dijkstra joins into its result.
FoundPath == node_data[dst].pred \o <<dst>>

-----------------------------------------------------------------------------
(* C2 *)

\* C2 as claimed: the graph build_knights_graph(N) returns has exactly N * N
\* keys, one per square of the board, a square with no legal move included.
C2_EverySquareIsANode ==
    pc = "idle" =>
        /\ Cardinality(DOMAIN graph) = board_size * board_size
        /\ \A cell \in Board(board_size) : get_mapping[cell] \in DOMAIN graph

\* C2 as amended: the keys of the returned graph are exactly the squares that
\* have a legal knight move, each with a nonempty neighbour mapping: all
\* N * N squares for 4 <= N <= 8, the 8 squares other than B2 for N = 3, and
\* none for N = 1 and N = 2.
C2_NodesAreTheMobileSquares ==
    pc = "idle" =>
        /\ DOMAIN graph = {get_mapping[cell] : cell \in MobileCells(board_size)}
        /\ \A k \in DOMAIN graph : DOMAIN graph[k] # {}
        /\ board_size >= 4 => Cardinality(DOMAIN graph) = board_size * board_size
        /\ board_size = 3 => Cardinality(DOMAIN graph) = 8 /\ "B2" \notin DOMAIN graph
        /\ board_size <= 2 => DOMAIN graph = {}

\* The 3 x 3 board is built and its centre is no key.
C2_Witness ==
    /\ pc = "idle"
    /\ board_size = 3
    /\ Cardinality(DOMAIN graph) = 8
    /\ "B2" \notin DOMAIN graph

-----------------------------------------------------------------------------
(* C3 *)

\* C3: in the returned graph, B is a neighbour of A exactly when their cells
\* are one knight move apart on the board; every weight is 1; and the graph
\* is symmetric.
C3_KnightEdges ==
    pc = "idle" =>
        \A A \in DOMAIN graph :
            /\ DOMAIN graph[A] \subseteq DOMAIN graph
            /\ \A B \in DOMAIN graph :
                /\ B \in DOMAIN graph[A] <=>
                       /\ CoordOf(A) \in Board(board_size)
                       /\ CoordOf(B) \in Board(board_size)
                       /\ KnightStep(CoordOf(A), CoordOf(B))
                /\ B \in DOMAIN graph[A] =>
                       /\ graph[A][B] = 1
                       /\ A \in DOMAIN graph[B]
                       /\ graph[B][A] = graph[A][B]

\* The 3 x 3 board is built, and A1 has the neighbours of the reference graph.
C3_Witness ==
    /\ pc = "idle"
    /\ board_size = 3
    /\ graph["A1"] = ("C2" :> 1) @@ ("B3" :> 1)

-----------------------------------------------------------------------------
(* C9 *)

\* The offsets in the order the claim gives them.
ClaimedOffsets ==
    << <<-1, -2>>, <<1, -2>>, <<-2, -1>>, <<2, -1>>,
       <<-2, 1>>, <<2, 1>>, <<-1, 2>>, <<1, 2>> >>

\* The targets on the board among the first k offsets, in their order.
ClaimedMoves(r, c, size, k) ==
    SelectSeq([i \in 1..k |-> <<r + ClaimedOffsets[i][1], c + ClaimedOffsets[i][2]>>],
              LAMBDA m : m \in Board(size))

\* C9: the generator yields exactly the targets on the board, once each, in
\* the order of PERMITTED_MOVES; on the 3 x 3 board (1, 1) yields nothing and
\* (0, 0) yields (2, 1) then (1, 2).
C9_PermittedMoves ==
    pc = "build" =>
        /\ yielded = ClaimedMoves(row, col, board_size, move_idx - 1)
        /\ \A i, j \in 1..Len(yielded) : yielded[i] = yielded[j] => i = j
        /\ board_size = 3 /\ row = 1 /\ col = 1 => yielded = <<>>
        /\ board_size = 3 /\ row = 0 /\ col = 0 /\ move_idx > 8 =>
               yielded = << <<2, 1>>, <<1, 2>> >>

\* The generator is exhausted at (0, 0) of the 3 x 3 board.
C9_Witness ==
    /\ pc = "build"
    /\ board_size = 3
    /\ row = 0
    /\ col = 0
    /\ move_idx > 8
    /\ yielded = << <<2, 1>>, <<1, 2>> >>

-----------------------------------------------------------------------------
(* C4 *)

\* The call has returned a path from src to dst of legal knight moves.
ReturnedKnightPath ==
    /\ pc = "done"
    /\ shortest_path = Join(FoundPath)
    /\ FoundPath[1] = src
    /\ FoundPath[Len(FoundPath)] = dst
    /\ KnightWalk(FoundPath, board_size)

\* C4 as claimed: on every board of size 3 to 8, every query of two squares
\* of the board returns a path from src to dst of legal knight moves.
C4_NoUnreachableFrom3 ==
    board_size >= 3 /\ pc \in {"done", "KeyError"} => ReturnedKnightPath

\* C4 as amended: on every board of size 4 to 8, every query of two squares
\* of the board returns a path from src to dst of legal knight moves; on the
\* 3 x 3 board this holds of the eight squares other than the centre B2,
\* which is no key of the graph (a query that names it raises KeyError).
C4_NoUnreachableFrom4 ==
    /\ board_size >= 4 /\ pc \in {"done", "KeyError"} => ReturnedKnightPath
    /\ board_size = 3 /\ pc \in {"done", "KeyError"} =>
           IF src = "B2" \/ dst = "B2"
           THEN pc = "KeyError"
           ELSE ReturnedKnightPath

\* A query between opposite corners of the 4 x 4 board has returned.
C4_Witness ==
    /\ board_size = 4
    /\ pc = "done"
    /\ src = "A1"
    /\ dst = "D4"
    /\ Len(FoundPath) > 2

-----------------------------------------------------------------------------
(* C6 *)

\* The heap entry a is not after b: by cost, then by the label's file and rank.
EntryNotAfter(a, b) ==
    \/ a[1] < b[1]
    \/ /\ a[1] = b[1]
       /\ \/ CoordOf(a[2])[1] < CoordOf(b[2])[1]
          \/ /\ CoordOf(a[2])[1] = CoordOf(b[2])[1]
             /\ CoordOf(a[2])[2] <= CoordOf(b[2])[2]

\* C6: on the 8 x 8 board the documented queries return the documented
\* paths, and the entry popped next is the least by cost, then by label.
C6_DocumentedPaths ==
    board_size = BOARD =>
        /\ pc = "done" /\ src = "D4" /\ dst = "G7" =>
               /\ shortest_path = "D4 E6 G7"
               /\ Len(FoundPath) = 3
               /\ KnightWalk(FoundPath, BOARD)
        /\ pc = "done" /\ src = "D4" /\ dst = "D5" => shortest_path = "D4 C2 B4 D5"
        /\ pc = "done" /\ src = "A1" /\ dst = "H8" =>
               shortest_path = "A1 C2 A3 B5 D6 F7 H8"
        /\ pc = "loop" /\ src \in {"D4", "A1"} =>
               \A i \in 1..Len(min_heap) : EntryNotAfter(min_heap[1], min_heap[i])

\* The query A1 H8 has returned on the 8 x 8 board.
C6_Witness ==
    /\ board_size = BOARD
    /\ pc = "done"
    /\ src = "A1"
    /\ dst = "H8"
    /\ shortest_path = "A1 C2 A3 B5 D6 F7 H8"

-----------------------------------------------------------------------------
(* C8 *)

\* C8: once the 8 x 8 graph is built no step of any query changes it, and a
\* call starts from a cost, predecessor, visited and queue state that is
\* made of the graph and src alone, whatever ran before.
C8_GraphReadOnly ==
    [][board_size = BOARD /\ pc # "build" =>
          /\ graph' = graph
          /\ pc = "idle" /\ pc' = "loop" =>
                /\ node_data' = [k \in DOMAIN graph |->
                                    [cost |-> IF k = src' THEN 0 ELSE inf,
                                     pred |-> <<>>]]
                /\ visited' = <<>>
                /\ min_heap' = << <<0, src'>> >>]_vars

\* A query on the 8 x 8 graph has visited every square and returned.
C8_Witness ==
    /\ board_size = BOARD
    /\ pc = "done"
    /\ Len(visited) = BOARD * BOARD
    /\ Cardinality(DOMAIN graph) = BOARD * BOARD

-----------------------------------------------------------------------------
(* Shortest distances, for the claims about dijkstra on any graph *)

Least(S) == CHOOSE m \in S : \A x \in S : m <= x

\* Rounds of relaxing every edge (Bellman-Ford) from the distances D, until
\* a round changes nothing.
RECURSIVE Rounds(_, _)
Rounds(g, D) ==
    LET E == [t \in DOMAIN g |->
                Least({D[t]} \cup
                      {D[a] + g[a][t] :
                          a \in {x \in DOMAIN g : t \in DOMAIN g[x] /\ D[x] < inf}})]
    IN  IF E = D THEN D ELSE Rounds(g, E)

\* The least total weight of a path from s to each node of g; inf where
\* there is none.
TrueDist(g, s) ==
    Rounds(g, [t \in DOMAIN g |-> IF t = s THEN 0 ELSE inf])

\* The total weight of the edges along a list of nodes.
RECURSIVE PathWeight(_, _)
PathWeight(g, path) ==
    IF Len(path) < 2 THEN 0
    ELSE g[path[1]][path[2]] + PathWeight(g, Tail(path))

\* The results test_dijkstra pins for the 36 ordered pairs of its graph.
FixtureResults ==
    [a \in DOMAIN Fixture |->
        CASE a = "A" -> [b \in DOMAIN Fixture |->
                 CASE b = "A" -> "A" [] b = "B" -> "A B" [] b = "C" -> "A C"
                   [] b = "D" -> "A C D" [] b = "E" -> "A C E" [] b = "F" -> "A C E F"]
          [] a = "B" -> [b \in DOMAIN Fixture |->
                 CASE b = "A" -> "B A" [] b = "B" -> "B" [] b = "C" -> "B C"
                   [] b = "D" -> "B C D" [] b = "E" -> "B C E" [] b = "F" -> "B C E F"]
          [] a = "C" -> [b \in DOMAIN Fixture |->
                 CASE b = "A" -> "C A" [] b = "B" -> "C B" [] b = "C" -> "C"
                   [] b = "D" -> "C D" [] b = "E" -> "C E" [] b = "F" -> "C E F"]
          [] a = "D" -> [b \in DOMAIN Fixture |->
                 CASE b = "A" -> "D C A" [] b = "B" -> "D C B" [] b = "C" -> "D C"
                   [] b = "D" -> "D" [] b = "E" -> "D C E" [] b = "F" -> "D C E F"]
          [] a = "E" -> [b \in DOMAIN Fixture |->
                 CASE b = "A" -> "E C A" [] b = "B" -> "E C B" [] b = "C" -> "E C"
                   [] b = "D" -> "E C D" [] b = "E" -> "E" [] b = "F" -> "E F"]
          [] a = "F" -> [b \in DOMAIN Fixture |->
                 CASE b = "A" -> "F E C A" [] b = "B" -> "F E C B" [] b = "C" -> "F E C"
                   [] b = "D" -> "F E C D" [] b = "E" -> "F E" [] b = "F" -> "F"]]

-----------------------------------------------------------------------------
(* C1 *)

\* C1: when dst can be reached from src, the returned path starts with src,
\* ends with dst, follows edges of the graph and has the least total weight
\* of all paths from src to dst; on the graph of test_dijkstra the result is
\* the pinned string.
C1_ShortestPath ==
    pc = "done" /\ TrueDist(graph, src)[dst] < inf =>
        /\ shortest_path = Join(FoundPath)
        /\ FoundPath[1] = src
        /\ FoundPath[Len(FoundPath)] = dst
        /\ \A i \in 1..(Len(FoundPath) - 1) :
              FoundPath[i + 1] \in DOMAIN graph[FoundPath[i]]
        /\ PathWeight(graph, FoundPath) = TrueDist(graph, src)[dst]
        /\ graph = Fixture => shortest_path = FixtureResults[src][dst]

\* The query from A to F has returned on the graph of test_dijkstra.
C1_Witness ==
    /\ pc = "done"
    /\ graph = Fixture
    /\ src = "A"
    /\ dst = "F"
    /\ shortest_path = "A C E F"

-----------------------------------------------------------------------------
(* C5 *)

\* C5: dijkstra(graph, X, X) returns X alone; the loop stops after the first
\* pop, no node is marked visited, no cost or chain is changed.
C5_SelfPath ==
    pc \in {"loop", "join", "done"} /\ src = dst =>
        /\ visited = <<>>
        /\ node_data = [k \in DOMAIN graph |->
                           [cost |-> IF k = src THEN 0 ELSE inf, pred |-> <<>>]]
        /\ pc = "loop" => min_heap = << <<0, src>> >>
        /\ pc # "loop" => min_heap = <<>>
        /\ pc = "done" => shortest_path = src

\* A query from a node that has neighbours to itself has returned.
C5_Witness ==
    /\ pc = "done"
    /\ src = dst
    /\ DOMAIN graph[src] # {}
    /\ shortest_path = src

-----------------------------------------------------------------------------
(* C7 *)

\* C7: when dst is a node that cannot be reached from src, no error is raised
\* and the result is dst alone: the queue ran empty with dst's chain still
\* empty.
C7_UnreachableIsDstAlone ==
    /\ pc # "KeyError"
    /\ pc = "done" /\ src # dst /\ TrueDist(graph, src)[dst] = inf =>
          /\ shortest_path = dst
          /\ node_data[dst].pred = <<>>
          /\ node_data[dst].cost = inf
          /\ min_heap = <<>>

\* A query has returned whose destination cannot be reached, from a source
\* that has neighbours.
C7_Witness ==
    /\ pc = "done"
    /\ src # dst
    /\ DOMAIN graph[src] # {}
    /\ TrueDist(graph, src)[dst] = inf
    /\ shortest_path = dst

-----------------------------------------------------------------------------
(* C10 *)

\* C10: in the loop of a call with src # dst, a node is marked visited at
\* most once; when it is marked, its cost is the shortest distance from src;
\* the cost and chain of a visited node never change; and a popped entry of
\* a visited node is dropped with nothing else changed.
C10_VisitedIsFinal ==
    [][pc = "loop" /\ src # dst =>
          /\ \A i, j \in 1..Len(visited') : visited'[i] = visited'[j] => i = j
          /\ Len(visited') > Len(visited) =>
                node_data'[visited'[Len(visited')]].cost =
                    TrueDist(graph, src)[visited'[Len(visited')]]
          /\ \A i \in 1..Len(visited) :
                /\ visited'[i] = visited[i]
                /\ node_data'[visited[i]] = node_data[visited[i]]
          /\ min_heap # <<>> /\ InList(Head(min_heap)[2], visited) =>
                /\ node_data' = node_data
                /\ visited' = visited
                /\ min_heap' = Tail(min_heap)]_vars

\* The entry to pop next is stale: its node is visited, at a lower cost.
C10_Witness ==
    /\ pc = "loop"
    /\ src # dst
    /\ min_heap # <<>>
    /\ InList(Head(min_heap)[2], visited)
    /\ node_data[Head(min_heap)[2]].cost < Head(min_heap)[1]

=============================================================================
